---- MODULE Spec2Model ----
(***************************************************************************)
(* State-machine model of the blog backend: the Post Collection            *)
(* (src/backend/models.py), the post routes that use it                    *)
(* (src/backend/routes/posts.py, src/backend/routes/utils.py) and the      *)
(* identity store of src/backend/routes/auth.py.                           *)
(*                                                                         *)
(* Python strings that the code compares, lower-cases or searches are      *)
(* sequences of code points; ids are opaque strings.  Python objects carry *)
(* a cls field, dictionaries are plain records keyed by their keys.        *)
(*                                                                         *)
(* Spec runs the methods of PostList over process restarts, SpecRoutes the *)
(* post routes and SpecAuth the register route of one process; SpecSort,   *)
(* SpecPaginate and SpecValidate apply one function to bounded arguments,  *)
(* the latter two with vdata as the argument and vret as the result.       *)
(***************************************************************************)
EXTENDS Integers, Sequences, FiniteSets, TLC

VARIABLES up, posts, file, now, issued, ret, added, everAdded, deletedIds,
          users, tokens, bearer, threads, binding, vdata, vret

vars == <<up, posts, file, now, issued, ret, added, everAdded, deletedIds,
          users, tokens, bearer, threads, binding, vdata, vret>>

(* ---------------------------- bounds ----------------------------------- *)

MaxPosts == 2
MaxUuids == 2
MaxComments == 1
MaxTicks == 1
MaxSortLen == 3
MaxLen == 4
MaxPage == 3
MaxPerPage == 3
MaxSalts == 2
MaxNames == 1

(* ------------------------- python values ------------------------------- *)

None == [cls |-> "NoneType"]

Str(s) == [cls |-> "str", s |-> s]

NoArgs == [none |-> TRUE]

Returned(op, args, value) ==
    [op |-> op, args |-> args, kind |-> "return", value |-> value, exc |-> ""]

Raised(op, args, exc) ==
    [op |-> op, args |-> args, kind |-> "raise", value |-> None, exc |-> exc]

Max(a, b) == IF a >= b THEN a ELSE b

Min(a, b) == IF a <= b THEN a ELSE b

RECURSIVE StrLess(_, _)
StrLess(a, b) ==
    IF a = <<>> THEN b # <<>>
    ELSE IF b = <<>> THEN FALSE
    ELSE IF a[1] # b[1] THEN a[1] < b[1]
    ELSE StrLess(Tail(a), Tail(b))

StrLeq(a, b) == a = b \/ StrLess(a, b)

RECURSIVE Digits(_, _)
Digits(n, width) ==
    IF width = 0 THEN <<>>
    ELSE Append(Digits(n \div 10, width - 1), 48 + (n % 10))

RECURSIVE IntOf(_)
IntOf(digits) ==
    IF digits = <<>> THEN 0
    ELSE 10 * IntOf(SubSeq(digits, 1, Len(digits) - 1)) + (digits[Len(digits)] - 48)

(* int(x) of a string: an optional sign followed by decimal digits *)
IntBody(s) == IF s # <<>> /\ s[1] \in {43, 45} THEN Tail(s) ELSE s

IsIntText(s) ==
    /\ IntBody(s) # <<>>
    /\ \A i \in 1..Len(IntBody(s)) : IntBody(s)[i] \in 48..57

int(s) == IF s # <<>> /\ s[1] = 45 THEN 0 - IntOf(IntBody(s)) ELSE IntOf(IntBody(s))

RECURSIVE NatText(_)
NatText(n) == IF n < 10 THEN <<48 + n>> ELSE Append(NatText(n \div 10), 48 + (n % 10))

(* str(n) of an int, as an f-string renders it *)
IntText(n) == IF n < 0 THEN <<45>> \o NatText(0 - n) ELSE NatText(n)

lower(s) == [i \in 1..Len(s) |-> IF s[i] \in 65..90 THEN s[i] + 32 ELSE s[i]]

(* sub in s *)
Contains(sub, s) ==
    \E i \in 0..(Len(s) - Len(sub)) : SubSeq(s, i + 1, i + Len(sub)) = sub

(* s[start:end] with Python's clamping of negative and oversized indices *)
SliceIndex(n, len) == IF n < 0 THEN Max(len + n, 0) ELSE Min(n, len)

(* variant that takes the element at end too *)
PySlice_inclusive(s, start, end) ==
    SubSeq(s, SliceIndex(start, Len(s)) + 1, SliceIndex(end + 1, Len(s)))

PySlice(s, start, end) ==
    SubSeq(s, SliceIndex(start, Len(s)) + 1, SliceIndex(end, Len(s)))

(* ------------------------- uuid and clock ------------------------------ *)

Uuids == { ToString(n) : n \in 1..MaxUuids }

(* uuid4().hex: a value never handed out before.  The code only tests ids  *)
(* for equality, so the unused value of lowest number stands for them all  *)
FreshUuids ==
    { ToString(n) : n \in { k \in 1..MaxUuids :
                              /\ ToString(k) \notin issued
                              /\ \A j \in 1..(k - 1) : ToString(j) \in issued } }

DatePrefix ==
    <<50, 48, 50, 52, 45, 48, 49, 45, 48, 49, 84, 48, 48, 58, 48, 48, 58>>

(* the clock is read at the instants s.000000 and s.000001 of each second: *)
(* reading n is second n \div 2, microsecond n % 2                         *)
Instant(n) == [sec |-> n \div 2, usec |-> n % 2]

isoformat(t, aware) ==
    DatePrefix \o Digits(t.sec, 2)
        \o (IF t.usec # 0 THEN <<46>> \o Digits(t.usec, 6) ELSE <<>>)
        \o (IF aware THEN <<43, 48, 48, 58, 48, 48>> ELSE <<>>)

now_utc_aware == isoformat(Instant(now), TRUE)

utcnow_naive == isoformat(Instant(now), FALSE)

(* ------------------------------ Post ----------------------------------- *)

Comment(comment_id, post_id, content) ==
    [cls |-> "Comment", id |-> comment_id, post_id |-> post_id, content |-> content]

Category(category_id, name) == [cls |-> "Category", id |-> category_id, name |-> name]

Tag(tag_id, name) == [cls |-> "Tag", id |-> tag_id, name |-> name]

Comment_to_dict(c) == [id |-> c.id, post_id |-> c.post_id, content |-> c.content]

Named_to_dict(c) == [id |-> c.id, name |-> c.name]

(* variant of the constructor that stores title and content crosswise *)
Post_swapped(post_id, title, content, author, date, comments, categories, tags) ==
    [cls |-> "Post", id |-> post_id, title |-> content, content |-> title,
     author |-> author,
     date |-> IF date # <<>> THEN date ELSE now_utc_aware,
     comments |-> comments,
     categories |-> categories,
     tags |-> tags]

(* an argument left out, None or empty is passed as <<>>: the constructor  *)
(* treats the three alike                                                  *)
Post(post_id, title, content, author, date, comments, categories, tags) ==
    [cls |-> "Post", id |-> post_id, title |-> title, content |-> content,
     author |-> author,
     date |-> IF date # <<>> THEN date ELSE now_utc_aware,
     comments |-> comments,
     categories |-> categories,
     tags |-> tags]

Post_to_dict(p) ==
    [id |-> p.id, title |-> p.title, content |-> p.content, author |-> p.author,
     date |-> p.date,
     comments |-> [i \in 1..Len(p.comments) |-> Comment_to_dict(p.comments[i])],
     categories |-> [i \in 1..Len(p.categories) |-> Named_to_dict(p.categories[i])],
     tags |-> [i \in 1..Len(p.tags) |-> Named_to_dict(p.tags[i])]]

(* ---------------------------- PostList --------------------------------- *)

json_dump(value) == [kind |-> "json", data |-> value]

(* variant that opens the file for appending instead of overwriting *)
save_posts_append(ps) ==
    json_dump(file.data \o [i \in 1..Len(ps) |-> Post_to_dict(ps[i])])

save_posts(ps) == json_dump([i \in 1..Len(ps) |-> Post_to_dict(ps[i])])

(* Post called with the keys of post_data as keyword arguments: every key  *)
(* must be a parameter of Post.__init__ and every parameter without a      *)
(* default must be given                                                   *)
PostInitParams ==
    {"post_id", "title", "content", "author", "date", "comments", "categories", "tags"}

PostInitRequired == {"post_id", "title", "content", "author"}

KwargsBind(post_data) ==
    /\ DOMAIN post_data \subseteq PostInitParams
    /\ PostInitRequired \subseteq DOMAIN post_data

Kwarg(post_data, name) == IF name \in DOMAIN post_data THEN post_data[name] ELSE <<>>

PostFromKwargs(post_data) ==
    Post(post_data["post_id"], post_data["title"], post_data["content"],
         post_data["author"], Kwarg(post_data, "date"), Kwarg(post_data, "comments"),
         Kwarg(post_data, "categories"), Kwarg(post_data, "tags"))

(* outcome of load_posts on the backing file f *)
load_posts(f) ==
    CASE f.kind = "missing" -> [exc |-> "", posts |-> <<>>]
      [] f.kind = "binary" -> [exc |-> "UnicodeDecodeError", posts |-> <<>>]
      [] f.kind = "garbled" -> [exc |-> "", posts |-> <<>>]
      [] f.kind = "json" ->
           IF \A i \in 1..Len(f.data) : KwargsBind(f.data[i])
           THEN [exc |-> "",
                 posts |-> [i \in 1..Len(f.data) |-> PostFromKwargs(f.data[i])]]
           ELSE [exc |-> "TypeError", posts |-> <<>>]

MatchIdx(ps, post_id) == { i \in 1..Len(ps) : ps[i].id = post_id }

FirstIdx(S) == CHOOSE i \in S : \A j \in S : i <= j

(* variant that settles for the first post when no id matches *)
find_post_by_id_or_first(ps, post_id) ==
    IF MatchIdx(ps, post_id) # {} THEN ps[FirstIdx(MatchIdx(ps, post_id))]
    ELSE IF ps # <<>> THEN ps[1] ELSE None

find_post_by_id(ps, post_id) ==
    IF MatchIdx(ps, post_id) = {} THEN None
    ELSE ps[FirstIdx(MatchIdx(ps, post_id))]

(* variant of the filter with the comparison inverted *)
WithoutId_inverted(ps, post_id) == SelectSeq(ps, LAMBDA post : post.id = post_id)

RECURSIVE WithoutId(_, _)
WithoutId(ps, post_id) ==
    IF ps = <<>> THEN <<>>
    ELSE IF ps[1].id # post_id THEN <<ps[1]>> \o WithoutId(Tail(ps), post_id)
    ELSE WithoutId(Tail(ps), post_id)

(* variant that numbers posts by the size of the collection *)
new_post_id_count(id) == ToString(Len(posts) + 1)

new_post_id(id) == id

(* variant that forgets the author *)
UpdatedPost_noauthor(post, title, content, author) ==
    [post EXCEPT !.title = title, !.content = content, !.date = utcnow_naive]

(* the four assignments of update_post *)
UpdatedPost(post, title, content, author) ==
    [post EXCEPT !.title = title, !.content = content, !.author = author,
                 !.date = utcnow_naive]

(* sorted(ps, key=lambda post: getattr(post, sort_by), reverse=...): a     *)
(* stable sort; with reverse equal keys keep their original order too      *)
(* variant that orders ascending whatever reverse says *)
Before_ascending(x, y, sort_by, reverse) == StrLess(x[sort_by], y[sort_by])

Before(x, y, sort_by, reverse) ==
    IF reverse THEN StrLess(y[sort_by], x[sort_by]) ELSE StrLess(x[sort_by], y[sort_by])

(* variant that puts an element before its equals *)
RECURSIVE InsertSorted_before_equals(_, _, _, _)
InsertSorted_before_equals(x, ps, sort_by, reverse) ==
    IF ps = <<>> THEN <<x>>
    ELSE IF ~Before(ps[1], x, sort_by, reverse) THEN <<x>> \o ps
    ELSE <<ps[1]>> \o InsertSorted_before_equals(x, Tail(ps), sort_by, reverse)

RECURSIVE InsertSorted(_, _, _, _)
InsertSorted(x, ps, sort_by, reverse) ==
    IF ps = <<>> THEN <<x>>
    ELSE IF Before(x, ps[1], sort_by, reverse) THEN <<x>> \o ps
    ELSE <<ps[1]>> \o InsertSorted(x, Tail(ps), sort_by, reverse)

RECURSIVE sorted(_, _, _)
sorted(ps, sort_by, reverse) ==
    IF ps = <<>> THEN <<>>
    ELSE InsertSorted(ps[Len(ps)], sorted(SubSeq(ps, 1, Len(ps) - 1), sort_by, reverse),
                      sort_by, reverse)

(* variant that lists the posts sorted by title *)
get_all_sorted(ps) ==
    [i \in 1..Len(ps) |-> Post_to_dict(sorted(ps, "title", FALSE)[i])]

get_all(ps) == [i \in 1..Len(ps) |-> Post_to_dict(ps[i])]

SortFields == {"title", "content", "author", "date"}

Directions == {"asc", "desc"}

(* variant that takes every direction other than desc for asc *)
sort_posts_unchecked(ps, sort_by, direction) ==
    IF sort_by # ""
    THEN IF sort_by \notin SortFields
         THEN [exc |-> "InvalidDataException", value |-> <<>>]
         ELSE [exc |-> "", value |-> sorted(ps, sort_by, direction = "desc")]
    ELSE [exc |-> "", value |-> ps]

(* PostList.sort_posts on the collection ps; "" is a sort_by that is None  *)
(* or empty                                                                *)
sort_posts_of(ps, sort_by, direction) ==
    IF sort_by # ""
    THEN IF sort_by \notin SortFields
         THEN [exc |-> "InvalidDataException", value |-> <<>>]
         ELSE IF direction \notin Directions
         THEN [exc |-> "InvalidDataException", value |-> <<>>]
         ELSE [exc |-> "", value |-> sorted(ps, sort_by, direction = "desc")]
    ELSE [exc |-> "", value |-> ps]

(* ------------------------- validate_post_data ------------------------- *)

Dict(items) == [cls |-> "dict", items |-> items]

(* truth value of None, of a string and of a dictionary *)
Truthy(v) ==
    CASE v.cls = "NoneType" -> FALSE
      [] v.cls = "str" -> v.s # <<>>
      [] v.cls = "dict" -> DOMAIN v.items # {}

required_fields == <<"title", "content", "author">>

(* variant that only looks for missing keys *)
FieldOffends_missing_only(data, field) == field \notin DOMAIN data.items

FieldOffends(data, field) ==
    field \notin DOMAIN data.items \/ ~Truthy(data.items[field])

InvalidData(message, field) ==
    [kind |-> "raise", exc |-> "InvalidDataException", message |-> message,
     field |-> field]

RECURSIVE CheckFields(_, _)
CheckFields(data, fields) ==
    IF fields = <<>> THEN [kind |-> "return", exc |-> "", message |-> "", field |-> ""]
    ELSE IF FieldOffends(data, fields[1])
    THEN InvalidData("Missing or empty field: ", fields[1])
    ELSE CheckFields(data, Tail(fields))

(* variant that only turns down a missing or empty body *)
validate_post_data_body_only(data) ==
    IF ~Truthy(data) THEN InvalidData("No data provided", "")
    ELSE [kind |-> "return", exc |-> "", message |-> "", field |-> ""]

validate_post_data(data) ==
    IF ~Truthy(data) THEN InvalidData("No data provided", "")
    ELSE CheckFields(data, required_fields)

(* -------------------------- pagination helper -------------------------- *)

(* variant that keeps only page and per_page in the query string *)
RECURSIVE JoinParams_page_only(_)
JoinParams_page_only(params) ==
    IF Len(params) <= 2
    THEN params[1][1] \o <<61>> \o params[1][2]
         \o (IF Len(params) > 1 THEN <<38>> \o JoinParams_page_only(Tail(params)) ELSE <<>>)
    ELSE JoinParams_page_only(Tail(params))

RECURSIVE JoinParams(_)
JoinParams(params) ==
    IF params = <<>> THEN <<>>
    ELSE params[1][1] \o <<61>> \o params[1][2]
         \o (IF Len(params) > 1 THEN <<38>> \o JoinParams(Tail(params)) ELSE <<>>)

KeyPage == <<112, 97, 103, 101>>

KeyPerPage == <<112, 101, 114, 95, 112, 97, 103, 101>>

KeyQuery == <<113, 117, 101, 114, 121>>

(* variant that counts pages from 0 *)
paginate_results_from_zero(results, page, per_page, base_url, query_params) ==
    LET start == page * per_page
        end == start + per_page
        params == query_params \o <<<<KeyPage, IntText(page + 1)>>,
                                    <<KeyPerPage, IntText(per_page)>>>>
    IN [results |-> PySlice(results, start, end),
        next_url |-> IF end < Len(results)
                     THEN Str(base_url \o <<63>> \o JoinParams(params))
                     ELSE None]

paginate_results(results, page, per_page, base_url, query_params) ==
    LET start == (page - 1) * per_page
        end == start + per_page
        params == query_params \o <<<<KeyPage, IntText(page + 1)>>,
                                    <<KeyPerPage, IntText(per_page)>>>>
    IN [results |-> PySlice(results, start, end),
        next_url |-> IF end < Len(results)
                     THEN Str(base_url \o <<63>> \o JoinParams(params))
                     ELSE None]

(* request.args.get(key) on the query string of a URL made of base_url,   *)
(* "?" and key=value parts between & signs: the value of the first part    *)
(* with that key                                                           *)
QueryArg(url, base_url, key) ==
    LET first == Len(base_url) + 2
        starts == { i \in first..(Len(url) - Len(key)) :
                      /\ i = first \/ url[i - 1] = 38
                      /\ SubSeq(url, i, i + Len(key)) = key \o <<61>> }
    IN IF starts = {} THEN None
       ELSE LET from == (CHOOSE i \in starts : \A k \in starts : i <= k)
                            + Len(key) + 1
                ends == { j \in from..(Len(url) + 1) :
                            j = Len(url) + 1 \/ url[j] = 38 }
                to == CHOOSE j \in ends : \A k \in ends : j <= k
            IN Str(SubSeq(url, from, to - 1))

(* ------------------------------ inputs --------------------------------- *)

(* (title, content, author): ("a", "B", "ab") and ("B", "a", "a") *)
PostInputs ==
    { <<<<97>>, <<66>>, <<97, 98>>>>,
      <<<<66>>, <<97>>, <<97>>>> }

CommentInputs == { <<97>> }

(* names of categories and tags *)
NameInputs == { <<97>> }

(* (sort_by, direction); "" stands for a sort_by that is None or empty *)
SortInputs ==
    { <<"", "asc">>, <<"title", "asc">>, <<"date", "desc">>, <<"bogus", "asc">>,
      <<"title", "up">> }

(* every sort_by and direction of the whitelists, and one outside each *)
AllSortInputs ==
    (SortFields \cup {"", "bogus"}) \X (Directions \cup {"up"})

(* posts to sort, as (title, content, author, clock reading of the date,   *)
(* date written at creation): "a" "B" "ab" with ties in every field        *)
SortRows ==
    { <<<<97>>, <<66>>, <<97, 98>>, 0, TRUE>>,
      <<<<66>>, <<97>>, <<97>>, 0, FALSE>>,
      <<<<97, 98>>, <<66>>, <<97>>, 1, TRUE>>,
      <<<<97>>, <<97>>, <<97, 98>>, 1, FALSE>> }

PostOfRow(i, row) ==
    Post(ToString(i), row[1], row[2], row[3], isoformat(Instant(row[4]), row[5]),
         <<>>, <<>>, <<>>)

(* collections of up to MaxSortLen posts.  A post created after another is *)
(* never dated before the other's creation, so a creation date is followed *)
(* only by dates that are not earlier                                      *)
SortCollections ==
    { [i \in DOMAIN rows |-> PostOfRow(i, rows[i])] :
        rows \in { r \in UNION { [1..n -> SortRows] : n \in 0..MaxSortLen } :
                     \A i, j \in DOMAIN r : (i < j /\ r[i][5]) => r[i][4] <= r[j][4] } }

(* request.base_url of the search route, abbreviated to "/s" *)
SearchBaseUrl == <<47, 115>>

(* query strings of GET /api/v1/posts/search: absent arguments are None *)
SearchRequests ==
    { [query |-> Str(<<97>>), page |-> None, per_page |-> None],
      [query |-> Str(<<98>>), page |-> Str(<<49>>), per_page |-> Str(<<49>>)],
      [query |-> Str(<<65>>), page |-> Str(<<50>>), per_page |-> Str(<<49>>)],
      [query |-> None, page |-> None, per_page |-> None],
      [query |-> Str(<<97>>), page |-> Str(<<120>>), per_page |-> None] }

(* JSON bodies of POST and PUT requests: null, the two complete posts of   *)
(* PostInputs, one with an empty content, one without author               *)
BodyOf(inp) ==
    Dict([title |-> Str(inp[1]), content |-> Str(inp[2]), author |-> Str(inp[3])])

RouteBodies ==
    { BodyOf(inp) : inp \in PostInputs }
    \cup { None,
           Dict([title |-> Str(<<97>>), content |-> Str(<<>>), author |-> Str(<<97>>)]),
           Dict([title |-> Str(<<97>>), content |-> Str(<<66>>)]) }

KeySortBy == <<115, 111, 114, 116, 95, 98, 121>>

KeyDirection == <<100, 105, 114, 101, 99, 116, 105, 111, 110>>

(* arguments of paginate_results: the list 1..n, pages and page sizes from *)
(* those the routes let through (search and sort do not check the sign),   *)
(* and the extra query parameters of the three routes                      *)
PaginateInputs ==
    { [results |-> [i \in 1..n |-> i], page |-> page, per_page |-> per_page,
       base_url |-> SearchBaseUrl, query_params |-> query_params] :
        n \in 0..MaxLen, page \in (-1)..MaxPage, per_page \in 0..MaxPerPage,
        query_params \in { <<>>,
                           <<<<KeyQuery, <<97>>>>>>,
                           <<<<KeySortBy, <<116>>>>, <<KeyDirection, <<97, 115, 99>>>>>> } }

(* the attribute and direction names the requests use, as texts *)
NameCodes ==
    [title |-> <<116, 105, 116, 108, 101>>,
     content |-> <<99, 111, 110, 116, 101, 110, 116>>,
     author |-> <<97, 117, 116, 104, 111, 114>>,
     date |-> <<100, 97, 116, 101>>,
     bogus |-> <<98, 111, 103, 117, 115>>,
     asc |-> <<97, 115, 99>>,
     desc |-> <<100, 101, 115, 99>>,
     up |-> <<117, 112>>]

(* the name a text spells; "" for the empty text *)
NameOf(s) ==
    IF s = <<>> THEN "" ELSE CHOOSE name \in DOMAIN NameCodes : NameCodes[name] = s

(* f"{value}" of a query parameter that is a string or None *)
Format(v) == IF v = None THEN <<78, 111, 110, 101>> ELSE v.s

(* request.base_url of the list route "/p" and of the sort route "/o" *)
PostsBaseUrl == <<47, 112>>

SortBaseUrl == <<47, 111>>

ListRequest(page, per_page) == [page |-> page, per_page |-> per_page]

(* query strings of GET /api/v1/posts: none, 2/1, 0/1, 1/0, x *)
GetRequests ==
    { ListRequest(None, None),
      ListRequest(Str(<<50>>), Str(<<49>>)),
      ListRequest(Str(<<48>>), Str(<<49>>)),
      ListRequest(Str(<<49>>), Str(<<48>>)),
      ListRequest(Str(<<120>>), None) }

(* the search requests of SearchRequests and two with a page or a per_page *)
(* below 1                                                                 *)
RouteSearchRequests ==
    SearchRequests
    \cup { [query |-> Str(<<97>>), page |-> Str(<<48>>), per_page |-> Str(<<49>>)],
           [query |-> Str(<<97>>), page |-> Str(<<49>>), per_page |-> Str(<<45, 49>>)] }

SortRequest(sort_by, direction, page, per_page) ==
    [sort_by |-> sort_by, direction |-> direction, page |-> page, per_page |-> per_page]

(* query strings of GET /api/v1/posts/sort *)
SortRequests ==
    { SortRequest(None, None, None, None),
      SortRequest(Str(NameCodes["title"]), Str(NameCodes["asc"]), Str(<<49>>), Str(<<49>>)),
      SortRequest(Str(NameCodes["date"]), Str(NameCodes["desc"]), Str(<<50>>), Str(<<49>>)),
      SortRequest(Str(NameCodes["bogus"]), None, None, None),
      SortRequest(Str(NameCodes["title"]), Str(NameCodes["up"]), None, None),
      SortRequest(None, Str(NameCodes["up"]), None, None),
      SortRequest(Str(NameCodes["title"]), Str(NameCodes["asc"]), Str(<<120>>), None),
      SortRequest(Str(NameCodes["title"]), Str(NameCodes["asc"]), Str(<<48>>), Str(<<49>>)) }

(* JSON bodies of POST /api/register: null, {}, and objects over the user  *)
(* names "u" "v" and the passwords "p" "q", with a missing or empty field  *)
Credentials(username, password) ==
    Dict([username |-> username, password |-> password])

RegisterBodies ==
    { None,
      Dict([key \in {} |-> None]),
      Dict([username |-> Str(<<117>>)]),
      Credentials(Str(<<>>), Str(<<112>>)),
      Credentials(Str(<<117>>), Str(<<>>)),
      Credentials(Str(<<117>>), None),
      Credentials(Str(<<117>>), Str(<<112>>)),
      Credentials(Str(<<117>>), Str(<<113>>)),
      Credentials(Str(<<118>>), Str(<<112>>)) }

(* the salts bcrypt draws for a new hash *)
Salts == 1..MaxSalts

(* what a client can put in the Authorization header: nothing, a text     *)
(* that is no token, a token for "u" signed with a key of its own, and any *)
(* token a login of the running application has issued                     *)
ForeignToken == [cls |-> "jwt", identity |-> <<117>>, key |-> "other"]

BearerInputs == {None, Str(<<120>>), ForeignToken} \cup tokens

(* the requests sent through the gate: one user with a right and a wrong   *)
(* password, one complete and one incomplete post, one list, one search    *)
(* and one sort request                                                    *)
GateRegisterBodies == { Credentials(Str(<<117>>), Str(<<112>>)) }

GateLoginBodies ==
    { Credentials(Str(<<117>>), Str(<<112>>)), Credentials(Str(<<117>>), Str(<<113>>)) }

GateBodies ==
    { Dict([title |-> Str(<<97>>), content |-> Str(<<66>>), author |-> Str(<<97, 98>>)]),
      Dict([title |-> Str(<<97>>), content |-> Str(<<66>>)]) }

GateListRequest == ListRequest(None, None)

GateSearchRequest == [query |-> Str(<<97>>), page |-> None, per_page |-> None]

GateSortRequest == SortRequest(None, None, None, None)

(* lists to page through: the list 1..n, a page size and the extra query  *)
(* parameters of the three routes                                          *)
FollowInputs ==
    { [results |-> [i \in 1..n |-> i], per_page |-> per_page,
       base_url |-> PostsBaseUrl, query_params |-> query_params] :
        n \in 0..MaxLen, per_page \in 1..MaxPerPage,
        query_params \in { <<>>,
                           <<<<KeyQuery, <<97>>>>>>,
                           <<<<KeySortBy, <<116>>>>, <<KeyDirection, <<97, 115, 99>>>>>> } }

(* the URL of the first request: page 1 with the page size *)
FirstUrl(input) ==
    input.base_url \o <<63>>
        \o JoinParams(<<<<KeyPage, IntText(1)>>, <<KeyPerPage, IntText(input.per_page)>>>>)

FileDamage == {"garbled", "binary"}

(* request bodies: None, or a dictionary over some of these keys whose     *)
(* values are null, "" or "a"                                              *)
DataKeys == {"title", "content", "author", "extra"}

DataValues == {None, Str(<<>>), Str(<<97>>)}

ValidateInputs ==
    {None} \cup { Dict(items) : items \in UNION { [K -> DataValues] : K \in SUBSET DataKeys } }

Pending == [kind |-> "pending", exc |-> "", message |-> "", field |-> ""]

(* ------------------------------ actions -------------------------------- *)

(* the threads that serve requests, and their state between requests *)
Threads == {"T1", "T2"}

Idle == [t \in Threads |-> [pc |-> "idle"]]

(* the module-level users dictionary of a fresh process *)
EmptyUsers == [username \in {} |-> None]

(* the process ends; its in-memory collection and its users are gone *)
Exit ==
    /\ up
    /\ up' = FALSE
    /\ posts' = <<>>
    /\ added' = <<>>
    /\ users' = EmptyUsers
    /\ tokens' = {}
    /\ ret' = Returned("exit", NoArgs, None)
    /\ UNCHANGED <<file, now, issued, everAdded, deletedIds, bearer, threads, binding,
                   vdata, vret>>

(* PostList(): a process start constructs the collection from the file *)
PostList ==
    /\ ~up
    /\ LET loaded == load_posts(file)
       IN IF loaded.exc = ""
          THEN /\ up' = TRUE
               /\ posts' = loaded.posts
               /\ ret' = Returned("PostList", [file |-> file.kind], None)
          ELSE /\ up' = FALSE
               /\ posts' = <<>>
               /\ ret' = Raised("PostList", [file |-> file.kind], loaded.exc)
    /\ added' = <<>>
    /\ UNCHANGED <<file, now, issued, everAdded, deletedIds, users, tokens, bearer,
                   threads, binding, vdata, vret>>

(* the post add_post builds around the uuid u *)
NewPost(u, title, content, author) ==
    Post(new_post_id(u), title, content, author, <<>>, <<>>, <<>>, <<>>)

(* state change of PostList.add_post: append, then save_posts *)
AddPost(u, title, content, author) ==
    /\ issued' = issued \cup {u}
    /\ posts' = Append(posts, NewPost(u, title, content, author))
    /\ file' = save_posts(posts')
    /\ added' = Append(added, new_post_id(u))
    /\ everAdded' = everAdded \cup {new_post_id(u)}

(* state change of PostList.delete_post on a post that was found *)
DeletePost(post_id) ==
    /\ posts' = WithoutId(posts, post_id)
    /\ file' = save_posts(posts')
    /\ deletedIds' = deletedIds \cup {post_id}

(* variant that moves the updated post to the end of the collection *)
UpdatePost_to_end(post_id, title, content, author) ==
    LET i == FirstIdx(MatchIdx(posts, post_id))
    IN /\ posts' = Append(WithoutId(posts, post_id),
                          UpdatedPost(posts[i], title, content, author))
       /\ file' = save_posts(posts')

(* state change of PostList.update_post on a post that was found *)
UpdatePost(post_id, title, content, author) ==
    LET i == FirstIdx(MatchIdx(posts, post_id))
    IN /\ posts' = [posts EXCEPT ![i] = UpdatedPost(posts[i], title, content, author)]
       /\ file' = save_posts(posts')

add_post(title, content, author) ==
    /\ up
    /\ Len(posts) < MaxPosts
    /\ \E u \in FreshUuids :
         /\ AddPost(u, title, content, author)
         /\ ret' = Returned("add_post",
                            [title |-> title, content |-> content, author |-> author],
                            NewPost(u, title, content, author))
    /\ UNCHANGED <<up, now, deletedIds, users, tokens, bearer,
                   threads, binding, vdata, vret>>

delete_post(post_id) ==
    /\ up
    /\ LET post == find_post_by_id(posts, post_id)
       IN IF post # None
          THEN /\ DeletePost(post_id)
               /\ ret' = Returned("delete_post", [post_id |-> post_id], post)
          ELSE /\ ret' = Raised("delete_post", [post_id |-> post_id],
                               "PostNotFoundException")
               /\ UNCHANGED <<posts, file, deletedIds>>
    /\ UNCHANGED <<up, now, issued, added, everAdded, users, tokens, bearer,
                   threads, binding, vdata, vret>>

update_post(post_id, title, content, author) ==
    /\ up
    /\ LET post == find_post_by_id(posts, post_id)
           args == [post_id |-> post_id, title |-> title, content |-> content,
                    author |-> author]
       IN IF post # None
          THEN /\ UpdatePost(post_id, title, content, author)
               /\ ret' = Returned("update_post", args,
                                  UpdatedPost(post, title, content, author))
          ELSE /\ ret' = Raised("update_post", args, "PostNotFoundException")
               /\ UNCHANGED <<posts, file>>
    /\ UNCHANGED <<up, now, issued, added, everAdded, deletedIds, users, tokens, bearer,
                   threads, binding, vdata, vret>>

GetAll ==
    /\ up
    /\ ret' = Returned("get_all", NoArgs, get_all(posts))
    /\ UNCHANGED <<up, posts, file, now, issued, added, everAdded, deletedIds,
                   users, tokens, bearer,
                   threads, binding, vdata, vret>>

sort_posts(sort_by, direction) ==
    /\ up
    /\ LET args == [sort_by |-> sort_by, direction |-> direction]
           outcome == sort_posts_of(posts, sort_by, direction)
       IN ret' = IF outcome.exc # ""
                 THEN Raised("sort_posts", args, outcome.exc)
                 ELSE Returned("sort_posts", args, outcome.value)
    /\ UNCHANGED <<up, posts, file, now, issued, added, everAdded, deletedIds,
                   users, tokens, bearer,
                   threads, binding, vdata, vret>>

(* variant of add_comment that ends with save_posts *)
add_comment_saving(i, content) ==
    /\ up
    /\ i \in 1..Len(posts)
    /\ Len(posts[i].comments) < MaxComments
    /\ \E u \in FreshUuids :
         LET new_comment == Comment(u, posts[i].id, content)
         IN /\ issued' = issued \cup {u}
            /\ posts' = [posts EXCEPT ![i].comments = Append(@, new_comment)]
            /\ file' = save_posts(posts')
            /\ ret' = Returned("add_comment",
                               [post_id |-> posts[i].id, content |-> content],
                               new_comment)
    /\ UNCHANGED <<up, now, added, everAdded, deletedIds, users, tokens, bearer,
                   threads, binding, vdata, vret>>

(* post.add_comment(content) on the i-th post of the collection *)
add_comment(i, content) ==
    /\ up
    /\ i \in 1..Len(posts)
    /\ Len(posts[i].comments) < MaxComments
    /\ \E u \in FreshUuids :
         LET new_comment == Comment(u, posts[i].id, content)
         IN /\ issued' = issued \cup {u}
            /\ posts' = [posts EXCEPT ![i].comments = Append(@, new_comment)]
            /\ ret' = Returned("add_comment",
                               [post_id |-> posts[i].id, content |-> content],
                               new_comment)
    /\ UNCHANGED <<up, file, now, added, everAdded, deletedIds, users, tokens, bearer,
                   threads, binding, vdata, vret>>

(* post.add_category(name) on the i-th post of the collection *)
add_category(i, name) ==
    /\ up
    /\ i \in 1..Len(posts)
    /\ Len(posts[i].categories) < MaxNames
    /\ \E u \in FreshUuids :
         LET new_category == Category(u, name)
         IN /\ issued' = issued \cup {u}
            /\ posts' = [posts EXCEPT ![i].categories = Append(@, new_category)]
            /\ ret' = Returned("add_category",
                               [post_id |-> posts[i].id, name |-> name],
                               new_category)
    /\ UNCHANGED <<up, file, now, added, everAdded, deletedIds, users, tokens, bearer,
                   threads, binding, vdata, vret>>

(* post.add_tag(name) on the i-th post of the collection *)
add_tag(i, name) ==
    /\ up
    /\ i \in 1..Len(posts)
    /\ Len(posts[i].tags) < MaxNames
    /\ \E u \in FreshUuids :
         LET new_tag == Tag(u, name)
         IN /\ issued' = issued \cup {u}
            /\ posts' = [posts EXCEPT ![i].tags = Append(@, new_tag)]
            /\ ret' = Returned("add_tag",
                               [post_id |-> posts[i].id, name |-> name],
                               new_tag)
    /\ UNCHANGED <<up, file, now, added, everAdded, deletedIds, users, tokens, bearer,
                   threads, binding, vdata, vret>>

(* request.args.get(name, 1) followed by int() *)
IntArgOk(arg) == arg = None \/ IsIntText(arg.s)

IntArg(arg, default) == IF arg = None THEN default ELSE int(arg.s)

(* variant that compares without lower-casing *)
search_results_case_sensitive(ps, query) ==
    get_all(SelectSeq(ps, LAMBDA post :
        \/ Contains(query, post.title)
        \/ Contains(query, post.content)
        \/ Contains(query, post.author)))

search_results(ps, query) ==
    get_all(SelectSeq(ps, LAMBDA post :
        \/ Contains(lower(query), lower(post.title))
        \/ Contains(lower(query), lower(post.content))
        \/ Contains(lower(query), lower(post.author))))

(* body of the GET /api/v1/posts/search handler *)
search_posts(req) ==
    /\ up
    /\ LET response ==
             IF ~IntArgOk(req.page) \/ ~IntArgOk(req.per_page)
             THEN [status |-> 400, results |-> <<>>, next_url |-> None,
                   error |-> "Page and per_page must be integers"]
             ELSE IF req.query = None \/ req.query.s = <<>>
             THEN [status |-> 400, results |-> <<>>, next_url |-> None,
                   error |-> "Missing query parameter"]
             ELSE LET page == paginate_results(search_results(posts, req.query.s),
                                               IntArg(req.page, 1),
                                               IntArg(req.per_page, 10),
                                               SearchBaseUrl,
                                               <<<<KeyQuery, req.query.s>>>>)
                  IN [status |-> 200, results |-> page.results,
                      next_url |-> page.next_url, error |-> ""]
       IN ret' = Returned("search_posts", req, response)
    /\ UNCHANGED <<up, posts, file, now, issued, added, everAdded, deletedIds,
                   users, tokens, bearer,
                   threads, binding, vdata, vret>>

ListResponse(status, results, next_url, error) ==
    [status |-> status, results |-> results, next_url |-> next_url, error |-> error]

(* body of the GET /api/v1/posts handler *)
get_posts(req) ==
    /\ up
    /\ LET response ==
             IF ~IntArgOk(req.page) \/ ~IntArgOk(req.per_page)
             THEN ListResponse(400, <<>>, None, "Page and per_page must be integers")
             ELSE IF IntArg(req.page, 1) < 1 \/ IntArg(req.per_page, 10) < 1
             THEN ListResponse(400, <<>>, None,
                               "Page and per_page must be positive integers")
             ELSE LET page == paginate_results(get_all(posts),
                                               IntArg(req.page, 1),
                                               IntArg(req.per_page, 10),
                                               PostsBaseUrl, <<>>)
                  IN ListResponse(200, page.results, page.next_url, "")
       IN ret' = Returned("get_posts", req, response)
    /\ UNCHANGED <<up, posts, file, now, issued, added, everAdded, deletedIds,
                   users, tokens, bearer,
                   threads, binding, vdata, vret>>

(* jsonify can serialise dictionaries, lists, strings and None, and raises *)
(* TypeError on an object of a class of models.py                          *)
Serializable(results) ==
    \A i \in 1..Len(results) : "cls" \notin DOMAIN results[i]

(* body of the GET /api/v1/posts/sort handler *)
sort_posts_route(req) ==
    /\ up
    /\ LET sort_by == IF req.sort_by = None THEN "" ELSE NameOf(req.sort_by.s)
           direction == IF req.direction = None THEN "asc" ELSE NameOf(req.direction.s)
           sorted_posts == sort_posts_of(posts, sort_by, direction)
           response ==
             IF sorted_posts.exc # ""
             THEN ListResponse(400, <<>>, None, "Invalid parameters")
             ELSE IF ~IntArgOk(req.page) \/ ~IntArgOk(req.per_page)
             THEN ListResponse(500, <<>>, None, "invalid literal for int()")
             ELSE LET page == paginate_results(sorted_posts.value,
                                 IntArg(req.page, 1),
                                 IntArg(req.per_page, 10),
                                 SortBaseUrl,
                                 <<<<KeySortBy, Format(req.sort_by)>>,
                                   <<KeyDirection,
                                     IF req.direction = None THEN NameCodes["asc"]
                                     ELSE req.direction.s>>>>)
                  IN IF ~Serializable(page.results)
                     THEN ListResponse(500, <<>>, None,
                                       "Object of type Post is not JSON serializable")
                     ELSE ListResponse(200, page.results, page.next_url, "")
       IN ret' = Returned("sort_posts_route", req, response)
    /\ UNCHANGED <<up, posts, file, now, issued, added, everAdded, deletedIds,
                   users, tokens, bearer,
                   threads, binding, vdata, vret>>

(* data[key] of a request body, as the text the Post constructor keeps *)
Item(data, key) ==
    IF data.items[key].cls = "str" THEN data.items[key].s ELSE <<>>

(* data["title"], data["content"], data["author"] can all be evaluated *)
Subscriptable(data) ==
    /\ data.cls = "dict"
    /\ \A i \in 1..Len(required_fields) : required_fields[i] \in DOMAIN data.items

ErrorResponse(status, message, field) ==
    [status |-> status, post |-> None, error |-> message, field |-> field]

PostResponse(status, post) ==
    [status |-> status, post |-> Post_to_dict(post), error |-> "", field |-> ""]

(* body of the POST /api/v1/posts handler *)
create_post(data) ==
    /\ up
    /\ LET checked == validate_post_data(data)
           args == [data |-> data]
       IN IF checked.kind = "raise"
          THEN /\ ret' = Returned("create_post", args,
                                  ErrorResponse(400, checked.message, checked.field))
               /\ UNCHANGED <<posts, file, issued, added, everAdded>>
          ELSE IF ~Subscriptable(data)
          THEN /\ ret' = Returned("create_post", args, ErrorResponse(500, "KeyError", ""))
               /\ UNCHANGED <<posts, file, issued, added, everAdded>>
          ELSE /\ Len(posts) < MaxPosts
               /\ \E u \in FreshUuids :
                    LET title == Item(data, "title")
                        content == Item(data, "content")
                        author == Item(data, "author")
                    IN /\ AddPost(u, title, content, author)
                       /\ ret' = Returned("create_post", args,
                                          PostResponse(201, NewPost(u, title, content, author)))
    /\ UNCHANGED <<up, now, deletedIds, users, tokens, bearer,
                   threads, binding, vdata, vret>>

(* body of the DELETE /api/v1/posts/<post_id> handler *)
delete_post_route(post_id) ==
    /\ up
    /\ LET args == [post_id |-> post_id]
       IN IF find_post_by_id(posts, post_id) # None
          THEN /\ DeletePost(post_id)
               /\ ret' = Returned("delete_post_route", args,
                                  [status |-> 200, post |-> None,
                                   error |-> "", field |-> ""])
          ELSE /\ ret' = Returned("delete_post_route", args,
                                  ErrorResponse(404, "Post not found", ""))
               /\ UNCHANGED <<posts, file, deletedIds>>
    /\ UNCHANGED <<up, now, issued, added, everAdded, users, tokens, bearer,
                   threads, binding, vdata, vret>>

(* body of the PUT /api/v1/posts/<post_id> handler *)
update_post_route(post_id, data) ==
    /\ up
    /\ LET checked == validate_post_data(data)
           args == [post_id |-> post_id, data |-> data]
       IN IF checked.kind = "raise"
          THEN /\ ret' = Returned("update_post_route", args,
                                  ErrorResponse(400, checked.message, checked.field))
               /\ UNCHANGED <<posts, file>>
          ELSE IF ~Subscriptable(data)
          THEN /\ ret' = Returned("update_post_route", args,
                                  ErrorResponse(500, "KeyError", ""))
               /\ UNCHANGED <<posts, file>>
          ELSE IF find_post_by_id(posts, post_id) = None
          THEN /\ ret' = Returned("update_post_route", args,
                                  ErrorResponse(404, "Post not found", ""))
               /\ UNCHANGED <<posts, file>>
          ELSE LET title == Item(data, "title")
                   content == Item(data, "content")
                   author == Item(data, "author")
               IN /\ UpdatePost(post_id, title, content, author)
                  /\ ret' = Returned("update_post_route", args,
                         PostResponse(200, UpdatedPost(find_post_by_id(posts, post_id),
                                                       title, content, author)))
    /\ UNCHANGED <<up, now, issued, added, everAdded, deletedIds, users, tokens, bearer,
                   threads, binding, vdata, vret>>

(* bcrypt.generate_password_hash: a verifier of the password under a salt *)
generate_password_hash(password, salt) ==
    [cls |-> "hash", salt |-> salt, of |-> password]

User(username, password, salt) ==
    [cls |-> "User", username |-> username,
     password |-> generate_password_hash(password, salt)]

(* data.get(key) *)
DictGet(data, key) ==
    IF key \in DOMAIN data.items THEN data.items[key] ELSE None

(* variant that finds no name registered *)
Registered_never(us, username) == FALSE

(* username in users *)
Registered(us, username) == username \in DOMAIN us

MessageResponse(status, message) == [status |-> status, message |-> message]

(* body of the POST /api/register handler *)
register(data) ==
    /\ up
    /\ LET args == [data |-> data]
       IN IF data.cls # "dict"
          THEN /\ ret' = Returned("register", args, MessageResponse(500, "AttributeError"))
               /\ UNCHANGED users
          ELSE LET username == DictGet(data, "username")
                   password == DictGet(data, "password")
               IN IF ~Truthy(username) \/ ~Truthy(password)
                  THEN /\ ret' = Returned("register", args,
                                MessageResponse(400, "Missing username or password"))
                       /\ UNCHANGED users
                  ELSE IF Registered(users, username.s)
                  THEN /\ ret' = Returned("register", args,
                                          MessageResponse(400, "User already exists"))
                       /\ UNCHANGED users
                  ELSE /\ \E salt \in Salts :
                            users' = [name \in DOMAIN users \cup {username.s} |->
                                        IF name = username.s
                                        THEN User(username.s, password.s, salt)
                                        ELSE users[name]]
                       /\ ret' = Returned("register", args,
                                MessageResponse(201, "User registered successfully"))
    /\ UNCHANGED <<up, posts, file, now, issued, added, everAdded, deletedIds,
                   tokens, bearer, threads, binding, vdata, vret>>

(* ---------------- PostList methods on concurrent threads --------------- *)

(* the methods take no lock, so a thread can be suspended between any two  *)
(* of their accesses to self.posts and to the file.  A step below is one    *)
(* such access together with the thread-local work that leads up to it      *)
ThreadPostInputs == { <<<<97>>, <<66>>, <<97, 98>>>> }

(* the locals of a thread inside add_post or delete_post: the return       *)
(* value, the list object it loaded from self.posts, the list it built and  *)
(* the text it is about to write                                            *)
Frame(pc, op, args, value, ref, newlist, snap) ==
    [pc |-> pc, op |-> op, args |-> args, value |-> value, ref |-> ref,
     newlist |-> newlist, snap |-> snap]

(* identity for a new list object: one that neither self.posts nor any     *)
(* thread refers to                                                        *)
NewBinding ==
    LET free == { n \in 0..(Cardinality(Threads) + 1) :
                    /\ n # binding
                    /\ \A t \in Threads : threads[t].pc = "append" => threads[t].ref # n }
    IN CHOOSE n \in free : \A m \in free : n <= m

(* variant in which append reaches self.posts whatever list was loaded *)
AppendTo_current(ref, p) == Append(posts, p)

(* ref.append(p), seen from self.posts: an append to the list object that  *)
(* self.posts is bound to shows, an append to a list that has been          *)
(* replaced does not                                                        *)
AppendTo(ref, p) == IF ref = binding THEN Append(posts, p) ELSE posts

(* length of the text json.dump writes for a list of post dictionaries:    *)
(* brackets, and per post its strings and the keys and punctuation around   *)
(* them; uuid4().hex has 32 characters                                      *)
RECURSIVE JsonSize(_)
JsonSize(data) ==
    IF data = <<>> THEN 2
    ELSE 150 + 32 + Len(data[1].title) + Len(data[1].content) + Len(data[1].author)
             + Len(data[1].date) + JsonSize(Tail(data))

(* number of characters in the file *)
FileSize(f) ==
    CASE f.kind = "json" -> JsonSize(f.data)
      [] f.kind = "garbled" /\ f.data # <<>> -> JsonSize(f.data)
      [] OTHER -> 0

(* the file after a text opened at offset 0 is flushed over what the file  *)
(* holds by then: the text alone if it covers the content, else the text    *)
(* followed by the rest of the longer content, which is no JSON document    *)
Flushed(f, snap) ==
    IF FileSize(snap) >= FileSize(f) THEN snap
    ELSE [kind |-> "garbled", data |-> f.data]

(* add_post on thread t: uuid4, Post(...) and the load of self.posts *)
t_add_post(t, title, content, author) ==
    /\ up
    /\ threads[t].pc = "idle"
    /\ \E u \in FreshUuids :
         /\ issued' = issued \cup {u}
         /\ threads' = [threads EXCEPT ![t] =
                          Frame("append", "add_post",
                                [title |-> title, content |-> content, author |-> author],
                                NewPost(u, title, content, author), binding, <<>>, None)]
    /\ UNCHANGED <<up, posts, file, now, ret, added, everAdded, deletedIds,
                   users, tokens, bearer, binding, vdata, vret>>

(* .append(new_post) on the list that was loaded *)
t_append(t) ==
    /\ up
    /\ threads[t].pc = "append"
    /\ posts' = AppendTo(threads[t].ref, threads[t].value)
    /\ threads' = [threads EXCEPT ![t].pc = "open"]
    /\ UNCHANGED <<up, file, now, issued, ret, added, everAdded, deletedIds,
                   users, tokens, bearer, binding, vdata, vret>>

(* delete_post on thread t: find_post_by_id, and the raise when it finds   *)
(* nothing                                                                 *)
t_delete_post(t, post_id) ==
    /\ up
    /\ threads[t].pc = "idle"
    /\ LET post == find_post_by_id(posts, post_id)
       IN IF post # None
          THEN /\ threads' = [threads EXCEPT ![t] =
                                Frame("build", "delete_post", [post_id |-> post_id],
                                      post, binding, <<>>, None)]
               /\ UNCHANGED ret
          ELSE /\ ret' = Raised("delete_post", [post_id |-> post_id],
                               "PostNotFoundException")
               /\ UNCHANGED threads
    /\ UNCHANGED <<up, posts, file, now, issued, added, everAdded, deletedIds,
                   users, tokens, bearer, binding, vdata, vret>>

(* the list comprehension over self.posts *)
t_build(t) ==
    /\ up
    /\ threads[t].pc = "build"
    /\ threads' = [threads EXCEPT ![t].pc = "rebind",
                                  ![t].newlist = WithoutId(posts, threads[t].args.post_id)]
    /\ UNCHANGED <<up, posts, file, now, issued, ret, added, everAdded, deletedIds,
                   users, tokens, bearer, binding, vdata, vret>>

(* self.posts = the list that was built *)
t_rebind(t) ==
    /\ up
    /\ threads[t].pc = "rebind"
    /\ posts' = threads[t].newlist
    /\ binding' = NewBinding
    /\ threads' = [threads EXCEPT ![t].pc = "open"]
    /\ UNCHANGED <<up, file, now, issued, ret, added, everAdded, deletedIds,
                   users, tokens, bearer, vdata, vret>>

(* save_posts: open(file_path, "w") empties the file *)
t_open(t) ==
    /\ up
    /\ threads[t].pc = "open"
    /\ file' = [kind |-> "garbled", data |-> <<>>]
    /\ threads' = [threads EXCEPT ![t].pc = "dump"]
    /\ UNCHANGED <<up, posts, now, issued, ret, added, everAdded, deletedIds,
                   users, tokens, bearer, binding, vdata, vret>>

(* save_posts: the to_dict of every post of self.posts, handed to          *)
(* json.dump, which leaves the text in the buffer of the file object        *)
t_dump(t) ==
    /\ up
    /\ threads[t].pc = "dump"
    /\ threads' = [threads EXCEPT ![t].pc = "close", ![t].snap = save_posts(posts)]
    /\ UNCHANGED <<up, posts, file, now, issued, ret, added, everAdded, deletedIds,
                   users, tokens, bearer, binding, vdata, vret>>

(* save_posts: leaving the with block flushes the buffer; the method then  *)
(* returns its post                                                        *)
t_close(t) ==
    /\ up
    /\ threads[t].pc = "close"
    /\ file' = Flushed(file, threads[t].snap)
    /\ ret' = Returned(threads[t].op, threads[t].args, threads[t].value)
    /\ IF threads[t].op = "add_post"
       THEN /\ added' = Append(added, threads[t].value.id)
            /\ everAdded' = everAdded \cup {threads[t].value.id}
            /\ UNCHANGED deletedIds
       ELSE /\ deletedIds' = deletedIds \cup {threads[t].args.post_id}
            /\ UNCHANGED <<added, everAdded>>
    /\ threads' = [threads EXCEPT ![t] = [pc |-> "idle"]]
    /\ UNCHANGED <<up, posts, now, issued, users, tokens, bearer, binding, vdata, vret>>

NextThreads ==
    \/ \E t \in Threads, inp \in ThreadPostInputs : t_add_post(t, inp[1], inp[2], inp[3])
    \/ \E t \in Threads : t_append(t)
    \/ \E t \in Threads, id \in Uuids : t_delete_post(t, id)
    \/ \E t \in Threads : t_build(t)
    \/ \E t \in Threads : t_rebind(t)
    \/ \E t \in Threads : t_open(t)
    \/ \E t \in Threads : t_dump(t)
    \/ \E t \in Threads : t_close(t)

(* register requests served on concurrent threads: two passwords for "u", *)
(* one for "v", a body without password and a body that is no object       *)
RaceBodies ==
    { Credentials(Str(<<117>>), Str(<<112>>)),
      Credentials(Str(<<117>>), Str(<<113>>)),
      Credentials(Str(<<118>>), Str(<<112>>)),
      Credentials(Str(<<117>>), Str(<<>>)),
      None }

(* a thread that has answered keeps the request and the response *)
Answered(data, response) == [pc |-> "answered", data |-> data, response |-> response]

(* variant of the assignment that keeps an entry that is already there *)
StoreUser_setdefault(us, username, user) ==
    [name \in DOMAIN us \cup {username} |->
        IF name \in DOMAIN us THEN us[name] ELSE user]

(* users[username] = user *)
StoreUser(us, username, user) ==
    [name \in DOMAIN us \cup {username} |->
        IF name = username THEN user ELSE us[name]]

(* thread t takes a register request up to and including the test          *)
(* "username in users"; the requests it refuses are answered at once       *)
register_check(t, data) ==
    /\ up
    /\ threads[t].pc \in {"idle", "answered"}
    /\ LET args == [data |-> data, thread |-> t]
           refuse(response) ==
               /\ threads' = [threads EXCEPT ![t] = Answered(data, response)]
               /\ ret' = Returned("register", args, response)
       IN IF data.cls # "dict"
          THEN refuse(MessageResponse(500, "AttributeError"))
          ELSE LET username == DictGet(data, "username")
                   password == DictGet(data, "password")
               IN IF ~Truthy(username) \/ ~Truthy(password)
                  THEN refuse(MessageResponse(400, "Missing username or password"))
                  ELSE IF Registered(users, username.s)
                  THEN refuse(MessageResponse(400, "User already exists"))
                  ELSE /\ threads' = [threads EXCEPT ![t] =
                                        [pc |-> "checked", data |-> data]]
                       /\ UNCHANGED ret
    /\ UNCHANGED <<up, posts, file, now, issued, added, everAdded, deletedIds,
                   users, tokens, bearer, binding, vdata, vret>>

(* thread t, past the test, builds the User and assigns it to the entry *)
register_store(t) ==
    /\ up
    /\ threads[t].pc = "checked"
    /\ LET username == DictGet(threads[t].data, "username")
           password == DictGet(threads[t].data, "password")
       IN \E salt \in Salts :
            users' = StoreUser(users, username.s, User(username.s, password.s, salt))
    /\ threads' = [threads EXCEPT ![t].pc = "stored"]
    /\ UNCHANGED <<up, posts, file, now, issued, ret, added, everAdded, deletedIds,
                   tokens, bearer, binding, vdata, vret>>

(* thread t answers 201 *)
register_answer(t) ==
    /\ up
    /\ threads[t].pc = "stored"
    /\ LET response == MessageResponse(201, "User registered successfully")
       IN /\ threads' = [threads EXCEPT ![t] = Answered(threads[t].data, response)]
          /\ ret' = Returned("register",
                             [data |-> threads[t].data, thread |-> t], response)
    /\ UNCHANGED <<up, posts, file, now, issued, added, everAdded, deletedIds,
                   users, tokens, bearer, binding, vdata, vret>>

NextRegisterThreads ==
    \/ \E t \in Threads, data \in RaceBodies : register_check(t, data)
    \/ \E t \in Threads : register_store(t)
    \/ \E t \in Threads : register_answer(t)

(* variant that lets every password through *)
check_password_hash_any(pw_hash, password) == TRUE

(* bcrypt.check_password_hash: the password, hashed under the salt of the  *)
(* stored hash, gives the stored hash                                      *)
check_password_hash(pw_hash, password) ==
    generate_password_hash(password, pw_hash.salt) = pw_hash

(* create_access_token(identity=username): a token signed with the key of *)
(* the running application                                                 *)
create_access_token(identity) ==
    [cls |-> "jwt", identity |-> identity, key |-> "app"]

TokenResponse(status, access_token) ==
    [status |-> status, access_token |-> access_token]

(* body of the POST /api/login handler *)
login(data) ==
    /\ up
    /\ LET args == [data |-> data]
       IN IF data.cls # "dict"
          THEN /\ ret' = Returned("login", args, MessageResponse(500, "AttributeError"))
               /\ UNCHANGED tokens
          ELSE LET username == DictGet(data, "username")
                   password == DictGet(data, "password")
               IN IF ~Truthy(username) \/ ~Truthy(password)
                  THEN /\ ret' = Returned("login", args,
                                MessageResponse(400, "Missing username or password"))
                       /\ UNCHANGED tokens
                  ELSE IF /\ Registered(users, username.s)
                          /\ check_password_hash(users[username.s].password, password.s)
                  THEN /\ tokens' = tokens \cup {create_access_token(username.s)}
                       /\ ret' = Returned("login", args,
                                TokenResponse(200, create_access_token(username.s)))
                  ELSE /\ ret' = Returned("login", args,
                                          MessageResponse(401, "Invalid credentials"))
                       /\ UNCHANGED tokens
    /\ UNCHANGED <<up, posts, file, now, issued, added, everAdded, deletedIds,
                   users, bearer, threads, binding, vdata, vret>>

(* a request arrives with an Authorization header *)
Request(token) ==
    /\ up
    /\ token # bearer
    /\ bearer' = token
    /\ UNCHANGED <<up, posts, file, now, issued, ret, added, everAdded, deletedIds,
                   users, tokens, threads, binding, vdata, vret>>

(* variant that does not look at the signature *)
verify_jwt_unsigned(token) == token.cls = "jwt"

(* the header holds a token signed with the key of the running application *)
verify_jwt(token) == token.cls = "jwt" /\ token.key = "app"

(* the answer of the token gate to a request without a verified token *)
Unauthorized(token) ==
    IF token = None
    THEN MessageResponse(401, "Missing Authorization Header")
    ELSE MessageResponse(422, "Invalid token")

(* @jwt_required() around a handler: the handler runs only behind a        *)
(* verified token                                                          *)
jwt_required(op, handler) ==
    IF verify_jwt(bearer)
    THEN handler
    ELSE /\ up
         /\ ret' = Returned(op, [token |-> bearer], Unauthorized(bearer))
         /\ UNCHANGED <<up, posts, file, now, issued, added, everAdded, deletedIds,
                        users, tokens, bearer, threads, binding, vdata, vret>>

(* the wall clock advances to a later reading *)
Tick ==
    /\ \E later \in (now + 1)..MaxTicks : now' = later
    /\ UNCHANGED <<up, posts, file, issued, ret, added, everAdded, deletedIds,
                   users, tokens, bearer,
                   threads, binding, vdata, vret>>

(* between two runs the environment removes the backing file or overwrites *)
(* it with damage                                                          *)
FileRemoved ==
    /\ ~up
    /\ file.kind # "missing"
    /\ file' = [kind |-> "missing", data |-> <<>>]
    /\ ret' = Returned("os.remove", NoArgs, None)
    /\ UNCHANGED <<up, posts, now, issued, added, everAdded, deletedIds, users, tokens, bearer,
                   threads, binding, vdata, vret>>

FileDamaged(kind) ==
    /\ ~up
    /\ file.kind # kind
    /\ file' = [kind |-> kind, data |-> <<>>]
    /\ ret' = Returned("os.write", [kind |-> kind], None)
    /\ UNCHANGED <<up, posts, now, issued, added, everAdded, deletedIds, users, tokens, bearer,
                   threads, binding, vdata, vret>>

(* --------------------------- specification ----------------------------- *)

Init ==
    /\ up = TRUE
    /\ posts = <<>>
    /\ file = [kind |-> "missing", data |-> <<>>]
    /\ now = 0
    /\ issued = {}
    /\ ret = Returned("PostList", [file |-> "missing"], None)
    /\ added = <<>>
    /\ everAdded = {}
    /\ deletedIds = {}
    /\ users = EmptyUsers
    /\ tokens = {}
    /\ bearer = None
    /\ threads = Idle
    /\ binding = 0
    /\ vdata = None
    /\ vret = Pending

Next ==
    \/ Exit
    \/ PostList
    \/ \E inp \in PostInputs : add_post(inp[1], inp[2], inp[3])
    \/ \E id \in Uuids : delete_post(id)
    \/ \E id \in Uuids, inp \in PostInputs : update_post(id, inp[1], inp[2], inp[3])
    \/ GetAll
    \/ \E inp \in SortInputs : sort_posts(inp[1], inp[2])
    \/ \E i \in 1..MaxPosts, content \in CommentInputs : add_comment(i, content)
    \/ \E req \in SearchRequests : search_posts(req)
    \/ Tick
    \/ FileRemoved
    \/ \E kind \in FileDamage : FileDamaged(kind)

Spec == Init /\ [][Next]_vars

(* the collection with the three record-adding methods of its posts, the  *)
(* mutators that write the file, and restarts                              *)
NextRecords ==
    \/ Exit
    \/ PostList
    \/ \E inp \in PostInputs : add_post(inp[1], inp[2], inp[3])
    \/ \E id \in Uuids : delete_post(id)
    \/ \E id \in Uuids, inp \in PostInputs : update_post(id, inp[1], inp[2], inp[3])
    \/ GetAll
    \/ \E i \in 1..MaxPosts, content \in CommentInputs : add_comment(i, content)
    \/ \E i \in 1..MaxPosts, name \in NameInputs : add_category(i, name)
    \/ \E i \in 1..MaxPosts, name \in NameInputs : add_tag(i, name)
    \/ FileRemoved

SpecRecords == Init /\ [][NextRecords]_vars

(* add_post and delete_post on the threads of one process *)
SpecThreads == Init /\ [][NextThreads]_vars

(* register requests on the threads of one process *)
SpecRegisterThreads == Init /\ [][NextRegisterThreads]_vars

(* validate_post_data applied to every request body of ValidateInputs *)
Validate ==
    /\ vret = Pending
    /\ vret' = validate_post_data(vdata)
    /\ UNCHANGED <<up, posts, file, now, issued, ret, added, everAdded, deletedIds,
                   users, tokens, bearer,
                   threads, binding, vdata>>

InitValidate ==
    /\ up = TRUE
    /\ posts = <<>>
    /\ file = [kind |-> "missing", data |-> <<>>]
    /\ now = 0
    /\ issued = {}
    /\ ret = Returned("PostList", [file |-> "missing"], None)
    /\ added = <<>>
    /\ everAdded = {}
    /\ deletedIds = {}
    /\ users = EmptyUsers
    /\ tokens = {}
    /\ bearer = None
    /\ threads = Idle
    /\ binding = 0
    /\ vdata \in ValidateInputs
    /\ vret = Pending

NextValidate == Validate

SpecValidate == InitValidate /\ [][NextValidate]_vars

(* paginate_results applied to every argument list of PaginateInputs *)
Paginate ==
    /\ vret = Pending
    /\ vret' = paginate_results(vdata.results, vdata.page, vdata.per_page,
                                vdata.base_url, vdata.query_params)
    /\ UNCHANGED <<up, posts, file, now, issued, ret, added, everAdded, deletedIds,
                   users, tokens, bearer,
                   threads, binding, vdata>>

InitPaginate ==
    /\ up = TRUE
    /\ posts = <<>>
    /\ file = [kind |-> "missing", data |-> <<>>]
    /\ now = 0
    /\ issued = {}
    /\ ret = Returned("PostList", [file |-> "missing"], None)
    /\ added = <<>>
    /\ everAdded = {}
    /\ deletedIds = {}
    /\ users = EmptyUsers
    /\ tokens = {}
    /\ bearer = None
    /\ threads = Idle
    /\ binding = 0
    /\ vdata \in PaginateInputs
    /\ vret = Pending

NextPaginate == Paginate

SpecPaginate == InitPaginate /\ [][NextPaginate]_vars

(* a client pages through a list that does not change: it requests the    *)
(* URL it holds, as get_posts reads page and per_page from it, keeps the    *)
(* slice and goes on with the next_url it is given                         *)
Follow ==
    /\ vret.url # None
    /\ \E page \in {IntArg(QueryArg(vret.url.s, vdata.base_url, KeyPage), 1)},
          per_page \in {IntArg(QueryArg(vret.url.s, vdata.base_url, KeyPerPage), 10)} :
         \E answer \in {paginate_results(vdata.results, page, per_page,
                                         vdata.base_url, vdata.query_params)} :
           vret' = [url |-> answer.next_url,
                    got |-> vret.got \o answer.results,
                    requests |-> vret.requests + 1]
    /\ UNCHANGED <<up, posts, file, now, issued, ret, added, everAdded, deletedIds,
                   users, tokens, bearer, threads, binding, vdata>>

InitFollow ==
    /\ up = TRUE
    /\ posts = <<>>
    /\ file = [kind |-> "missing", data |-> <<>>]
    /\ now = 0
    /\ issued = {}
    /\ ret = Returned("PostList", [file |-> "missing"], None)
    /\ added = <<>>
    /\ everAdded = {}
    /\ deletedIds = {}
    /\ users = EmptyUsers
    /\ tokens = {}
    /\ bearer = None
    /\ threads = Idle
    /\ binding = 0
    /\ vdata \in FollowInputs
    /\ vret = [url |-> Str(FirstUrl(vdata)), got |-> <<>>, requests |-> 0]

NextFollow == Follow

(* the client keeps requesting while it holds a next_url *)
SpecFollow == InitFollow /\ [][NextFollow]_vars /\ WF_vars(NextFollow)

(* sort_posts applied to every collection of SortCollections *)
InitSort ==
    /\ up = TRUE
    /\ posts \in SortCollections
    /\ file = save_posts(posts)
    /\ now = 1
    /\ issued = { posts[i].id : i \in 1..Len(posts) }
    /\ ret = Returned("PostList", [file |-> "missing"], None)
    /\ added = [i \in 1..Len(posts) |-> posts[i].id]
    /\ everAdded = { posts[i].id : i \in 1..Len(posts) }
    /\ deletedIds = {}
    /\ users = EmptyUsers
    /\ tokens = {}
    /\ bearer = None
    /\ threads = Idle
    /\ binding = 0
    /\ vdata = None
    /\ vret = Pending

NextSort == \E inp \in AllSortInputs : sort_posts(inp[1], inp[2])

SpecSort == InitSort /\ [][NextSort]_vars

(* the HTTP routes of routes/posts.py, served by one process *)
NextRoutes ==
    \/ \E data \in RouteBodies : create_post(data)
    \/ \E id \in Uuids : delete_post_route(id)
    \/ \E id \in Uuids, data \in RouteBodies : update_post_route(id, data)
    \/ \E req \in GetRequests : get_posts(req)
    \/ \E req \in RouteSearchRequests : search_posts(req)
    \/ \E req \in SortRequests : sort_posts_route(req)
    \/ Tick

SpecRoutes == Init /\ [][NextRoutes]_vars

(* the register and login routes of routes/auth.py, served by one process; *)
(* login is sent the bodies register is sent                               *)
NextAuth ==
    \/ \E data \in RegisterBodies : register(data)
    \/ \E data \in RegisterBodies : login(data)

SpecAuth == Init /\ [][NextAuth]_vars

(* register, login and the post routes behind their token gate, served by *)
(* one process                                                             *)
NextGate ==
    \/ \E data \in GateRegisterBodies : register(data)
    \/ \E data \in GateLoginBodies : login(data)
    \/ \E token \in BearerInputs : Request(token)
    \/ jwt_required("get_posts", get_posts(GateListRequest))
    \/ \E data \in GateBodies : jwt_required("create_post", create_post(data))
    \/ \E id \in Uuids : jwt_required("delete_post_route", delete_post_route(id))
    \/ \E id \in Uuids, data \in GateBodies :
           jwt_required("update_post_route", update_post_route(id, data))
    \/ jwt_required("search_posts", search_posts(GateSearchRequest))
    \/ jwt_required("sort_posts_route", sort_posts_route(GateSortRequest))

SpecGate == Init /\ [][NextGate]_vars

(* ------------------------------ claims --------------------------------- *)

IdsOf(ps) == [i \in 1..Len(ps) |-> ps[i].id]

HasId(ps, post_id) == \E i \in 1..Len(ps) : ps[i].id = post_id

CallOf(op) == ret' # ret /\ ret'.op = op

Mutators == {"add_post", "delete_post", "update_post"}

(* C1: when add_post returns for a non-empty title, content and author,    *)
(* find_post_by_id on the returned id yields a post with exactly that      *)
(* title, content and author and no comments; the id is non-empty and was  *)
(* not the id of any post added earlier.                                   *)
C1_AddThenFind ==
    [][ (CallOf("add_post") /\ ret'.kind = "return"
            /\ ret'.args.title # <<>> /\ ret'.args.content # <<>>
            /\ ret'.args.author # <<>>)
        => LET found == find_post_by_id(posts', ret'.value.id)
           IN /\ found # None
              /\ found.title = ret'.args.title
              /\ found.content = ret'.args.content
              /\ found.author = ret'.args.author
              /\ found.comments = <<>>
              /\ ret'.value.id # ""
              /\ ret'.value.id \notin everAdded ]_vars

C1_Witness ==
    /\ ret.op = "add_post" /\ ret.kind = "return"
    /\ Len(posts) = 2
    /\ find_post_by_id(posts, ret.value.id) = posts[2]

(* C2: no two posts of the collection share an id, and no post of the      *)
(* collection has an id that belonged to a deleted post.                   *)
C2_IdsUniqueNeverReused ==
    /\ \A i, j \in 1..Len(posts) : posts[i].id = posts[j].id => i = j
    /\ \A i \in 1..Len(posts) : posts[i].id \notin deletedIds

C2_Witness ==
    /\ ret.op = "add_post" /\ ret.kind = "return"
    /\ deletedIds # {}
    /\ Len(posts) >= 1

(* C3: delete_post raises PostNotFoundException when no post has the id;   *)
(* when a post has it, delete_post returns that post, and from then on     *)
(* find_post_by_id on a deleted id returns None.                           *)
C3_Delete ==
    [][ /\ CallOf("delete_post")
            => IF HasId(posts, ret'.args.post_id)
               THEN /\ ret'.kind = "return"
                    /\ ret'.value.id = ret'.args.post_id
                    /\ \E i \in 1..Len(posts) : posts[i] = ret'.value
               ELSE /\ ret'.kind = "raise"
                    /\ ret'.exc = "PostNotFoundException"
        /\ \A id \in deletedIds' : find_post_by_id(posts', id) = None ]_vars

C3_Witness ==
    /\ ret.op = "delete_post" /\ ret.kind = "return"
    /\ Len(posts) = 1
    /\ find_post_by_id(posts, ret.args.post_id) = None

(* C4: update_post on an existing id leaves the post with the given title, *)
(* content and author and with a date that renders the current clock       *)
(* reading; on an id no post has it raises PostNotFoundException.          *)
C4_Update ==
    [][ CallOf("update_post")
        => IF HasId(posts, ret'.args.post_id)
           THEN LET post == find_post_by_id(posts', ret'.args.post_id)
                IN /\ ret'.kind = "return"
                   /\ post # None
                   /\ post.title = ret'.args.title
                   /\ post.content = ret'.args.content
                   /\ post.author = ret'.args.author
                   /\ post.date \in { isoformat(Instant(now), aware) : aware \in BOOLEAN }
           ELSE /\ ret'.kind = "raise"
                /\ ret'.exc = "PostNotFoundException" ]_vars

C4_Witness ==
    /\ ret.op = "update_post" /\ ret.kind = "return"
    /\ now > 0
    /\ ret.value.date = utcnow_naive

(* C5: a successful update_post leaves the post with a date that is        *)
(* greater than or equal to the date it had before the update.             *)
C5_DateNeverDecreases ==
    [][ (CallOf("update_post") /\ ret'.kind = "return")
        => StrLeq(find_post_by_id(posts, ret'.args.post_id).date,
                  find_post_by_id(posts', ret'.args.post_id).date) ]_vars

(* C6: the collection, and what get_all returns, is always the posts added *)
(* and not deleted, in the order in which they were added.                 *)
Surviving == SelectSeq(added, LAMBDA id : id \notin deletedIds)

C6_InsertionOrder ==
    /\ IdsOf(posts) = Surviving
    /\ ret.op = "get_all" => IdsOf(ret.value) = Surviving

C6_Witness ==
    /\ ret.op = "get_all"
    /\ deletedIds # {}
    /\ Len(ret.value) = 1

(* C7: when add_post, delete_post or update_post has returned, the backing *)
(* file holds exactly the records of the whole in-memory collection, in    *)
(* collection order.                                                       *)
C7_FileIsCollection ==
    (ret.op \in Mutators /\ ret.kind = "return")
        => /\ file.kind = "json"
           /\ file.data = [i \in 1..Len(posts) |-> Post_to_dict(posts[i])]

C7_Witness ==
    /\ ret.op = "update_post" /\ ret.kind = "return"
    /\ \E i \in 1..Len(posts) : posts[i].comments # <<>>

(* C8: constructing a PostList from a file written by save_posts succeeds  *)
(* and yields posts whose records are the records in the file, in order.   *)
C8_RoundTrip ==
    (ret.op = "PostList" /\ ret.args.file = "json")
        => /\ ret.kind = "return"
           /\ [i \in 1..Len(posts) |-> Post_to_dict(posts[i])] = file.data

(* C9: constructing a PostList when the file is missing or does not hold   *)
(* well-formed JSON yields an empty collection and raises no error.        *)
C9_BadFileLoadsEmpty ==
    (ret.op = "PostList" /\ ret.args.file \in {"missing", "garbled", "binary"})
        => /\ ret.kind = "return"
           /\ up
           /\ posts = <<>>

(* C10 as stated: validate_post_data raises InvalidDataException exactly   *)
(* when the data is absent or a required field is missing or empty, and    *)
(* whenever a required field is missing or empty the error names the first *)
(* such field in the order title, content, author.                         *)
Absent(data) == data = None

Offending(data) ==
    IF Absent(data) THEN {}
    ELSE { i \in 1..3 :
             \/ required_fields[i] \notin DOMAIN data.items
             \/ data.items[required_fields[i]] \in {None, Str(<<>>)} }

FirstOffending(data) ==
    required_fields[CHOOSE i \in Offending(data) : \A j \in Offending(data) : i <= j]

C10_NamesFirstField ==
    vret # Pending
        => /\ vret.kind = "raise" <=> (Absent(vdata) \/ Offending(vdata) # {})
           /\ vret.kind = "raise" => vret.exc = "InvalidDataException"
           /\ Offending(vdata) # {} => vret.field = FirstOffending(vdata)

(* C10 amended: as above, except that data that is None or an empty        *)
(* dictionary is reported as "No data provided" with no field named.       *)
NoData(data) == Absent(data) \/ DOMAIN data.items = {}

C10_NamesFirstFieldOfData ==
    vret # Pending
        => /\ vret.kind = "raise" <=> (Absent(vdata) \/ Offending(vdata) # {})
           /\ vret.kind = "raise" => vret.exc = "InvalidDataException"
           /\ NoData(vdata) => vret.message = "No data provided" /\ vret.field = ""
           /\ (~NoData(vdata) /\ Offending(vdata) # {})
                => /\ vret.message = "Missing or empty field: "
                   /\ vret.field = FirstOffending(vdata)

C10_Witness ==
    /\ vret.kind = "raise"
    /\ vret.field = "content"
    /\ "title" \in DOMAIN vdata.items
    /\ "content" \in DOMAIN vdata.items
    /\ vdata.items["content"] = Str(<<>>)

(* C11: in every state reached through the create, update and delete   *)
(* routes from the empty collection, every post has a non-empty title, a   *)
(* non-empty content and a non-empty author                                *)
C11_NoEmptyField ==
    \A i \in 1..Len(posts) :
        posts[i].title # <<>> /\ posts[i].content # <<>> /\ posts[i].author # <<>>

(* the collection holds a post and a request with an empty or missing      *)
(* field has just been turned down                                         *)
C11_Witness ==
    /\ Len(posts) > 0
    /\ ret.op \in {"create_post", "update_post_route"}
    /\ ret.value.status = 400
    /\ ret.args.data # None
    /\ Offending(ret.args.data) # {}

SortCall == CallOf("sort_posts")

(* C12: sort_posts called with a field outside title, content, author,     *)
(* date, or with a field and a direction outside asc, desc, raises         *)
(* InvalidDataException and leaves the collection as it was                *)
C12_SortRejects ==
    [][(/\ SortCall
        /\ ret'.args.sort_by # ""
        /\ \/ ret'.args.sort_by \notin {"title", "content", "author", "date"}
           \/ ret'.args.direction \notin {"asc", "desc"})
       => /\ ret'.kind = "raise"
          /\ ret'.exc = "InvalidDataException"
          /\ posts' = posts]_vars

(* a whitelisted field with a direction outside asc, desc has been turned  *)
(* down on a collection of two posts                                       *)
C12_Witness ==
    /\ ret.op = "sort_posts"
    /\ ret.kind = "raise"
    /\ ret.args.sort_by = "content"
    /\ ret.args.direction = "up"
    /\ Len(posts) = 2

Occurrences(s, x) == Cardinality({ i \in 1..Len(s) : s[i] = x })

(* C13: for every whitelisted field and direction, what sort_posts returns *)
(* holds every post of the collection exactly once, with the values of the *)
(* field non-decreasing for asc and non-increasing for desc                *)
C13_SortedPermutation ==
    (/\ ret.op = "sort_posts"
     /\ ret.args.sort_by \in {"title", "content", "author", "date"}
     /\ ret.args.direction \in {"asc", "desc"})
    => /\ ret.kind = "return"
       /\ Len(ret.value) = Len(posts)
       /\ \A i \in 1..Len(posts) :
            /\ Occurrences(ret.value, posts[i]) = 1
            /\ Occurrences(posts, posts[i]) = 1
       /\ \A i \in 1..(Len(ret.value) - 1) :
            IF ret.args.direction = "asc"
            THEN StrLeq(ret.value[i][ret.args.sort_by], ret.value[i + 1][ret.args.sort_by])
            ELSE StrLeq(ret.value[i + 1][ret.args.sort_by], ret.value[i][ret.args.sort_by])

(* three posts have been sorted by date, descending, into another order,   *)
(* two of them with the same title                                         *)
C13_Witness ==
    /\ ret.op = "sort_posts"
    /\ ret.kind = "return"
    /\ ret.args.sort_by = "date"
    /\ ret.args.direction = "desc"
    /\ Len(posts) = 3
    /\ ret.value # posts
    /\ posts[1].title = posts[3].title

(* C15: for page >= 1 and per_page >= 1 the page slice is the elements at *)
(* 0-based positions (page-1)*per_page up to but excluding                 *)
(* min(page*per_page, len(results)), in order, and is empty when the start *)
(* is at or past the end of the list                                       *)
C15_PageSlice ==
    (vret # Pending /\ vdata.page >= 1 /\ vdata.per_page >= 1)
    => LET first == (vdata.page - 1) * vdata.per_page
           stop == Min(vdata.page * vdata.per_page, Len(vdata.results))
       IN IF first >= Len(vdata.results)
          THEN vret.results = <<>>
          ELSE /\ Len(vret.results) = stop - first
               /\ \A k \in 1..(stop - first) : vret.results[k] = vdata.results[first + k]

(* page 2 of size 3 of a list of four elements is its last element alone *)
C15_Witness ==
    /\ vret # Pending
    /\ vdata.page = 2
    /\ vdata.per_page = 3
    /\ Len(vdata.results) = 4
    /\ vret.results = <<4>>

(* the parts of a query string between its & signs *)
RECURSIVE SplitAmp(_)
SplitAmp(s) ==
    IF \A i \in 1..Len(s) : s[i] # 38 THEN <<s>>
    ELSE LET i == CHOOSE k \in 1..Len(s) : s[k] = 38 /\ \A j \in 1..(k - 1) : s[j] # 38
         IN <<SubSeq(s, 1, i - 1)>> \o SplitAmp(SubSeq(s, i + 1, Len(s)))

PartsOf(url, base_url) ==
    LET parts == SplitAmp(SubSeq(url, Len(base_url) + 2, Len(url)))
    IN { parts[i] : i \in 1..Len(parts) }

(* C16: for page >= 1 and per_page >= 1 there is a next_url exactly when   *)
(* page*per_page < len(results); it is base_url, "?" and a query string    *)
(* carrying page+1, the same per_page and every extra query parameter, and *)
(* otherwise next_url is None                                              *)
C16_NextUrl ==
    (vret # Pending /\ vdata.page >= 1 /\ vdata.per_page >= 1)
    => IF vdata.page * vdata.per_page < Len(vdata.results)
       THEN /\ vret.next_url # None
            /\ SubSeq(vret.next_url.s, 1, Len(vdata.base_url) + 1) = vdata.base_url \o <<63>>
            /\ LET parts == PartsOf(vret.next_url.s, vdata.base_url)
               IN /\ KeyPage \o <<61>> \o IntText(vdata.page + 1) \in parts
                  /\ KeyPerPage \o <<61>> \o IntText(vdata.per_page) \in parts
                  /\ \A i \in 1..Len(vdata.query_params) :
                       vdata.query_params[i][1] \o <<61>> \o vdata.query_params[i][2]
                           \in parts
       ELSE vret.next_url = None

(* a first page of two elements out of three, asked for with two extra     *)
(* query parameters, comes with a next_url                                 *)
C16_Witness ==
    /\ vret # Pending
    /\ vdata.page = 1
    /\ vdata.per_page = 2
    /\ Len(vdata.results) = 3
    /\ Len(vdata.query_params) = 2
    /\ vret.next_url # None

(* the posts that match a query, as the records the routes answer with *)
Matches(query) ==
    LET hit(post) == \E field \in {"title", "content", "author"} :
                        Contains(lower(query), lower(post[field]))
    IN get_all(SelectSeq(posts, hit))

SearchAnswered ==
    /\ ret.op = "search_posts"
    /\ ret.value.status = 200

(* C14: for every non-empty query the result list of the search route is   *)
(* exactly the posts whose title, content or author contains the query,    *)
(* both in lower case, in collection order and without repetition          *)
C14_AllMatches ==
    SearchAnswered => ret.value.results = Matches(ret.args.query.s)

(* C14 as amended: the result list is the requested page of that list of   *)
(* matching posts: always a run of neighbours of it, and for page >= 1 and *)
(* per_page >= 1 its positions (page-1)*per_page up to page*per_page       *)
C14_PageOfMatches ==
    SearchAnswered
    => LET all == Matches(ret.args.query.s)
           page == IntArg(ret.args.page, 1)
           per_page == IntArg(ret.args.per_page, 10)
       IN /\ ret.args.query.s # <<>>
          /\ \E first, last \in 0..Len(all) : ret.value.results = SubSeq(all, first + 1, last)
          /\ (page >= 1 /\ per_page >= 1)
                => ret.value.results
                     = SubSeq(all, Min((page - 1) * per_page, Len(all)) + 1,
                              Min(page * per_page, Len(all)))

(* the query "A" matches both posts of the collection and page 2 of size 1 *)
(* holds the second alone                                                  *)
C14_Witness ==
    /\ SearchAnswered
    /\ ret.args.query = Str(<<65>>)
    /\ ret.args.page = Str(<<50>>)
    /\ Len(posts) = 2
    /\ Len(Matches(<<65>>)) = 2
    /\ Len(ret.value.results) = 1
    /\ ret.value.results[1].id = posts[2].id

(* a page or per_page argument that is not an integer or is below 1 *)
BadPaging(arg) == arg # None /\ (~IsIntText(arg.s) \/ int(arg.s) < 1)

(* C17: on the list, search and sort routes a page or per_page that is not *)
(* a positive integer is answered 400                                      *)
C17_BadPagingRejected ==
    (/\ ret.op \in {"get_posts", "search_posts", "sort_posts_route"}
     /\ BadPaging(ret.args.page) \/ BadPaging(ret.args.per_page))
    => ret.value.status = 400

SortByOf(req) == IF req.sort_by = None THEN "" ELSE NameOf(req.sort_by.s)

DirectionOf(req) == IF req.direction = None THEN "asc" ELSE NameOf(req.direction.s)

(* C18: the sort route, asked with a whitelisted sort_by, a direction asc  *)
(* or desc and valid page and per_page, answers 200 with the requested     *)
(* page of the sorted posts as post records                                *)
C18_SortRouteAnswers ==
    (/\ ret.op = "sort_posts_route"
     /\ SortByOf(ret.args) \in {"title", "content", "author", "date"}
     /\ DirectionOf(ret.args) \in {"asc", "desc"}
     /\ ~BadPaging(ret.args.page)
     /\ ~BadPaging(ret.args.per_page))
    => /\ ret.value.status = 200
       /\ LET page == IntArg(ret.args.page, 1)
              per_page == IntArg(ret.args.per_page, 10)
              all == get_all(sorted(posts, SortByOf(ret.args),
                                    DirectionOf(ret.args) = "desc"))
          IN ret.value.results
               = SubSeq(all, Min((page - 1) * per_page, Len(all)) + 1,
                        Min(page * per_page, Len(all)))

(* C19: the sort route answers 400 whenever sort_by is given with a value  *)
(* outside title, content, author, date and whenever the direction is      *)
(* outside asc, desc, also when sort_by is omitted                         *)
C19_SortRouteRejects ==
    (/\ ret.op = "sort_posts_route"
     /\ \/ SortByOf(ret.args) \notin {"", "title", "content", "author", "date"}
        \/ DirectionOf(ret.args) \notin {"asc", "desc"})
    => ret.value.status = 400

(* a field of a registration body that is present and not empty *)
Filled(data, key) ==
    /\ key \in DOMAIN data.items
    /\ data.items[key] # None
    /\ data.items[key].s # <<>>

(* C20: a register request is answered 201 exactly when username and       *)
(* password are both non-empty and the username is not yet registered, and *)
(* 400 for an empty field and for a registered username; a rejected        *)
(* request leaves the identity store as it was, and no step changes a      *)
(* registered user's password verifier or removes the user                 *)
C20_Register ==
    [][/\ CallOf("register")
          => LET data == ret'.args.data
                 filled == /\ data # None
                           /\ Filled(data, "username")
                           /\ Filled(data, "password")
             IN /\ ret'.value.status = 201
                     <=> (filled /\ data.items["username"].s \notin DOMAIN users)
                /\ (data # None /\ ~filled) => ret'.value.status = 400
                /\ (filled /\ data.items["username"].s \in DOMAIN users)
                     => ret'.value.status = 400
                /\ ret'.value.status = 201
                     => /\ DOMAIN users' = DOMAIN users \cup {data.items["username"].s}
                        /\ users'[data.items["username"].s].password.of
                             = data.items["password"].s
                /\ ret'.value.status # 201 => users' = users
       /\ \A name \in DOMAIN users :
            name \in DOMAIN users' /\ users'[name] = users[name]]_vars

(* the registered name "u" has been asked for again with another password  *)
(* and turned down, while "v" is registered too                            *)
C20_Witness ==
    /\ ret.op = "register"
    /\ ret.value.status = 400
    /\ ret.args.data # None
    /\ Filled(ret.args.data, "username")
    /\ Filled(ret.args.data, "password")
    /\ DOMAIN users = {<<117>>, <<118>>}
    /\ users[<<117>>].password.of # ret.args.data.items["password"].s

(* C21: a login request is answered 200 with a token exactly when the     *)
(* username is registered and the password is the one it was registered    *)
(* with, and the token carries that username as identity; an unknown       *)
(* username or a wrong password is answered 401, an empty username or      *)
(* password 400, and the identity store is unchanged                       *)
C21_Login ==
    [][CallOf("login")
          => LET data == ret'.args.data
                 filled == /\ data # None
                           /\ Filled(data, "username")
                           /\ Filled(data, "password")
                 known == /\ filled
                          /\ data.items["username"].s \in DOMAIN users
                          /\ users[data.items["username"].s].password.of
                               = data.items["password"].s
             IN /\ ret'.value.status = 200 <=> known
                /\ known => ret'.value.access_token.identity = data.items["username"].s
                /\ (filled /\ ~known) => ret'.value.status = 401
                /\ (data # None /\ ~filled) => ret'.value.status = 400
                /\ users' = users]_vars

(* "u", registered with another password, has been refused with 401 after *)
(* "v" was given a token                                                   *)
C21_Witness ==
    /\ ret.op = "login"
    /\ ret.value.status = 401
    /\ ret.args.data.items["username"] = Str(<<117>>)
    /\ <<117>> \in DOMAIN users
    /\ create_access_token(<<118>>) \in tokens

PostRoutes ==
    {"get_posts", "create_post", "delete_post_route", "update_post_route",
     "search_posts", "sort_posts_route"}

(* a post route has answered a request *)
PostRouteStep == ret' # ret /\ ret'.op \in PostRoutes

(* the answer of the token gate, which no handler gives *)
Refusal(response) == response.status \in {401, 422}

InvalidBody(r) ==
    /\ r.op \in {"create_post", "update_post_route"}
    /\ (Absent(r.args.data) \/ NoData(r.args.data) \/ Offending(r.args.data) # {})

(* a delete or update request, with valid data, for an id no post has *)
UnknownId(r) ==
    /\ r.op \in {"delete_post_route", "update_post_route"}
    /\ ~HasId(posts, r.args.post_id)
    /\ ~InvalidBody(r)

PositionIn(s, x) == CHOOSE k \in 1..Len(s) : s[k] = x

(* C25: for every whitelisted field and for asc as well as desc, two posts *)
(* with equal values of the sort field come in the result in the order     *)
(* they have in the collection                                             *)
C25_SortStable ==
    (/\ ret.op = "sort_posts"
     /\ ret.kind = "return"
     /\ ret.args.sort_by \in {"title", "content", "author", "date"})
    => \A i, j \in 1..Len(posts) :
         (i < j /\ posts[i][ret.args.sort_by] = posts[j][ret.args.sort_by])
            => PositionIn(ret.value, posts[i]) < PositionIn(ret.value, posts[j])

(* a descending sort by title has moved a post behind two posts of equal   *)
(* title, which kept their order                                           *)
C25_Witness ==
    /\ ret.op = "sort_posts"
    /\ ret.kind = "return"
    /\ ret.args.sort_by = "title"
    /\ ret.args.direction = "desc"
    /\ Len(posts) = 3
    /\ posts[2].title = posts[3].title
    /\ posts[1].title # posts[2].title
    /\ ret.value = <<posts[2], posts[3], posts[1]>>

(* C26: paging from page 1 along the next_url of each answer ends with    *)
(* next_url None after exactly max(1, ceil(n / per_page)) requests, and    *)
(* the slices received, put together, are the whole list in order          *)
C26_Traversal ==
    <>(/\ vret.url = None
       /\ vret.requests
            = Max(1, (Len(vdata.results) + vdata.per_page - 1) \div vdata.per_page)
       /\ vret.got = vdata.results)

(* a list of four elements has been read in two requests for pages of     *)
(* size 3                                                                  *)
C26_Witness ==
    /\ vret.url = None
    /\ Len(vdata.results) = 4
    /\ vdata.per_page = 3
    /\ vret.requests = 2
    /\ vret.got = <<1, 2, 3, 4>>

(* C27: update_post on an existing id changes only that post's title,     *)
(* content, author and date: the post keeps its id, comments, categories,  *)
(* tags and position, and every other post is unchanged                    *)
UpdatedFields == {"title", "content", "author", "date"}

C27_UpdateFrame ==
    [][ (CallOf("update_post") /\ ret'.kind = "return")
        => /\ Len(posts') = Len(posts)
           /\ \A i \in 1..Len(posts) :
                IF posts[i].id = ret'.args.post_id
                THEN /\ DOMAIN posts'[i] = DOMAIN posts[i]
                     /\ \A f \in DOMAIN posts[i] \ UpdatedFields :
                          posts'[i][f] = posts[i][f]
                ELSE posts'[i] = posts[i] ]_vars

(* the first of two posts has just been updated: it is still first, with  *)
(* the new title, and the second post has another title                    *)
C27_Witness ==
    /\ ret.op = "update_post" /\ ret.kind = "return"
    /\ Len(posts) = 2
    /\ posts[1].id = ret.args.post_id
    /\ posts[1].title = ret.args.title
    /\ posts[2].title # ret.args.title

(* C28: add_comment, add_category and add_tag append the new record at the *)
(* end of the post's list (a comment carrying the parent's id as post_id)   *)
(* and leave the file alone: from then until the next add_post, delete_post *)
(* or update_post the file differs from what the collection would be saved  *)
(* as, and neither the file nor a PostList loaded from it has the record    *)
RecordLists ==
    [add_comment |-> "comments", add_category |-> "categories", add_tag |-> "tags"]

RecordIdsOf(ps) ==
    UNION { { ps[i][l][k].id : k \in 1..Len(ps[i][l]) } :
              i \in 1..Len(ps), l \in {"comments", "categories", "tags"} }

(* ids of the records in memory that the file and what loads from it lack  *)
Unsaved(ps, f) == RecordIdsOf(ps) \ (RecordIdsOf(f.data) \cup RecordIdsOf(load_posts(f).posts))

UsernameOf(t) == DictGet(threads[t].data, "username").s

PasswordOf(t) == DictGet(threads[t].data, "password").s

C29_RegisterRace ==
    [][ \A t \in Threads :
          /\ (threads[t].pc = "checked" /\ threads'[t].pc = "stored")
             => /\ DOMAIN users' = DOMAIN users \cup {UsernameOf(t)}
                /\ check_password_hash(users'[UsernameOf(t)].password, PasswordOf(t))
                /\ \A name \in DOMAIN users \ {UsernameOf(t)} : users'[name] = users[name]
          /\ (threads[t].pc = "stored" /\ threads'[t].pc # "stored")
             => /\ threads'[t].pc = "answered"
                /\ threads'[t].response.status = 201
                /\ ret' = Returned("register",
                                   [data |-> threads[t].data, thread |-> t],
                                   threads'[t].response) ]_vars

(* both threads have answered 201 to a registration of "u", T1 with the    *)
(* password "p" and T2 with "q"; the store has the one entry "u", and it    *)
(* accepts "q" and no longer "p"                                           *)
C29_Witness ==
    /\ \A t \in Threads : threads[t].pc = "answered" /\ threads[t].response.status = 201
    /\ threads["T1"].data = Credentials(Str(<<117>>), Str(<<112>>))
    /\ threads["T2"].data = Credentials(Str(<<117>>), Str(<<113>>))
    /\ DOMAIN users = {<<117>>}
    /\ check_password_hash(users[<<117>>].password, <<113>>)
    /\ ~check_password_hash(users[<<117>>].password, <<112>>)

(* C24: without a lock a step of a mutating method acts on what its       *)
(* thread read earlier: an append to a list that delete_post has replaced   *)
(* does not reach the collection, a rebind installs the list that was       *)
(* built whatever has been appended since, a flush writes the text that     *)
(* was taken whatever the collection is by then, and each method returns    *)
(* its post all the same; so a mutation that returned can be missing from   *)
(* the collection and from the file                                         *)
Quiescent == \A t \in Threads : threads[t].pc = "idle"

FileIds == { file.data[i].id : i \in 1..Len(file.data) }

C24_StaleSteps ==
    [][ \A t \in Threads :
          /\ (threads[t].pc = "append" /\ threads'[t].pc = "open")
             => posts' = IF threads[t].ref = binding
                         THEN Append(posts, threads[t].value) ELSE posts
          /\ (threads[t].pc = "rebind" /\ threads'[t].pc = "open")
             => /\ posts' = threads[t].newlist
                /\ \A i \in 1..Len(posts) :
                     (/\ posts[i].id # threads[t].args.post_id
                      /\ ~HasId(threads[t].newlist, posts[i].id))
                     => ~HasId(posts', posts[i].id)
          /\ (threads[t].pc = "close" /\ threads'[t].pc = "idle")
             => /\ file' \in {threads[t].snap, [kind |-> "garbled", data |-> file.data]}
                /\ ret' = Returned(threads[t].op, threads[t].args, threads[t].value) ]_vars

(* both threads are back from their calls, the last of which is an         *)
(* add_post that returned its post; that post was never deleted, yet it is  *)
(* neither in the collection nor in the file, which holds valid JSON        *)
C24_Witness ==
    /\ Quiescent
    /\ ret.op = "add_post" /\ ret.kind = "return"
    /\ ret.value.id \in everAdded \ deletedIds
    /\ ~HasId(posts, ret.value.id)
    /\ file.kind = "json"
    /\ ret.value.id \notin FileIds
    /\ file = save_posts(posts)

====
